---- MODULE Spec2Model ----
(***************************************************************************)
(* maskrcnn_benchmark/engine/trainer.py: reduce_loss_dict and do_train,    *)
(* run by world_size worker processes (rank = worker - 1).                 *)
(*                                                                         *)
(* A loss name is modelled by its position in the lexicographic order of   *)
(* the names (1 is the smallest name), so sorted() is the ascending sort   *)
(* of these numbers.  A scalar loss is a formal sum of atoms over a        *)
(* denominator: the model's loss of worker w for key k on batch b of       *)
(* phase p is the atom <<w, p, b, k>>; addition is bag union and           *)
(* "/= world_size" multiplies the denominator.  A dict is a record with    *)
(* an object identity and its items in insertion order.                    *)
(***************************************************************************)
EXTENDS Integers, Sequences, FiniteSets, Bags, TLC

\* ---------------------------------------------------------------- bounds
MaxWorld == 2
NKeys == 2
MaxTrain == 2
MaxTest == 1
\* the forward passes that may raise in one run, over all workers
MaxRaises == 2

\* trainer.py line 78: iteration % 10
LogPeriod == 10

VARIABLES
    world_size,     \* get_world_size()
    n_train,        \* len(train_data_loader), max_iter
    n_test,         \* number of batches of test_data_loader
    start_iter,     \* arguments["iteration"] at the call
    pc,             \* pc[w]: where worker w is
    err,            \* err[w]: the exception that ended worker w, or "none"
    arguments,      \* arguments[w]: arguments["iteration"]
    ti,             \* ti[w]: training batches taken from the loader
    tj,             \* tj[w]: test batches taken from the loader
    loss_dict,      \* loss_dict[w]: loss_dict / test_loss_dict
    losses,         \* losses[w]: the local sum, line 67
    loss_names,     \* loss_names[w], line 23
    all_losses,     \* all_losses[w]: the stacked tensor, line 28
    reduced,        \* reduced[w]: what reduce_loss_dict returned
    train_meters,   \* train_meters[w]
    test_meters,    \* test_meters[w]
    stat,           \* stat[w]: calls made so far, by kind (raised, raised_test: the
                    \* forward passes that raised in the training and the test loop)
    events,         \* events[w]: the calls of the current loop iteration, in
                    \* order, each <<callee, argument>>
    ret             \* ret[w]: the value do_train returned

vars == <<world_size, n_train, n_test, start_iter, pc, err, arguments, ti, tj,
          loss_dict, losses, loss_names, all_losses, reduced, train_meters,
          test_meters, stat, events, ret>>

Workers == 1..world_size
Rank(w) == w - 1

\* ---------------------------------------------------------------- scalars
Atom(w, phase, b, k) == [num |-> SetToBag({<<w, phase, b, k>>}), den |-> 1]
Zero == [num |-> EmptyBag, den |-> 1]

Scale(bag, n) == [a \in DOMAIN bag |-> bag[a] * n]

\* a + b
Add(a, b) ==
    IF a.num = EmptyBag THEN b
    ELSE IF b.num = EmptyBag THEN a
    ELSE IF a.den = b.den THEN [num |-> a.num (+) b.num, den |-> a.den]
    ELSE [num |-> Scale(a.num, b.den) (+) Scale(b.num, a.den), den |-> a.den * b.den]

\* sum(...) over a sequence of scalars, starting from 0
RECURSIVE SumSeq(_)
SumSeq(s) == IF s = <<>> THEN Zero ELSE Add(SumSeq(SubSeq(s, 1, Len(s) - 1)), s[Len(s)])

\* ---------------------------------------------------------------- dicts
EmptyDict == [obj |-> "none", items |-> <<>>]
Keys(d) == [i \in 1..Len(d.items) |-> d.items[i][1]]
Values(d) == [i \in 1..Len(d.items) |-> d.items[i][2]]
KeySet(d) == {d.items[i][1] : i \in 1..Len(d.items)}
Get(d, k) == d.items[CHOOSE i \in 1..Len(d.items) : d.items[i][1] = k][2]

\* sorted(): ascending insertion sort
RECURSIVE Insert(_, _)
Insert(s, k) ==
    IF s = <<>> THEN <<k>>
    ELSE IF k <= Head(s) THEN <<k>> \o s
    ELSE <<Head(s)>> \o Insert(Tail(s), k)

RECURSIVE Sorted(_)
Sorted(s) == IF s = <<>> THEN <<>> ELSE Insert(Sorted(Tail(s)), Head(s))

Min(a, b) == IF a <= b THEN a ELSE b

\* ------------------------------------------------------ reduce_loss_dict
\* mutant of line 20: the shortcut is never taken
ShortcutOff(ws) == ws < 1

\* line 20: if world_size < 2: return loss_dict
ReduceShortcut(ws) == ws < 2

\* mutant of line 25: the keys are taken in insertion order
LossNamesUnsorted(d) == Keys(d)

\* lines 23-27: loss_names, in sorted key order
LossNames(d) == Sorted(Keys(d))

\* mutant of line 27: the values are stacked in insertion order
StackUnsorted(d) == Values(d)

\* lines 23-28: the values in sorted key order, stacked into a new tensor
StackLosses(d) == [i \in 1..Len(LossNames(d)) |-> Get(d, LossNames(d)[i])]

\* mutant of line 30: every rank divides by world_size
DivideAll(t, rank, ws) == [i \in DOMAIN t |-> [num |-> t[i].num, den |-> t[i].den * ws]]

\* lines 30-33: only rank 0 divides by world_size
Divide(t, rank, ws) ==
    IF rank = 0 THEN [i \in DOMAIN t |-> [num |-> t[i].num, den |-> t[i].den * ws]]
    ELSE t

\* line 34: {k: v for k, v in zip(loss_names, all_losses)}, a new dict
ZipDict(names, t) ==
    [obj |-> "reduced",
     items |-> [i \in 1..Min(Len(names), Len(t)) |-> <<names[i], t[i]>>]]

\* line 29, dist.reduce(op=SUM): element i summed over the workers of S
RECURSIVE SumOver(_, _, _)
SumOver(S, i, buf) ==
    IF S = {} THEN Zero
    ELSE LET v == CHOOSE x \in S : TRUE
         IN Add(SumOver(S \ {v}, i, buf), buf[v][i])

DistReduce(buf, w, S) == [i \in DOMAIN buf[w] |-> SumOver(S, i, buf)]

\* What worker w's tensor may hold after dist.reduce(dst=0): rank 0 receives the
\* sum over all workers; the content on the other ranks is not specified by the
\* backend: either its own values, untouched, or the sum as well.
ReduceParts(w) ==
    IF Rank(w) = 0 THEN {Workers}
    ELSE {{w}, Workers}

WaitPcs == {"rl_wait", "train_wait", "test_wait"}

Resumed(p) ==
    CASE p = "rl_wait" -> "rl_reduced"
      [] p = "train_wait" -> "train_reduced"
      [] p = "test_wait" -> "test_reduced"
      [] OTHER -> p

SameShape == \A v, w \in Workers : Len(all_losses[v]) = Len(all_losses[w])

\* line 29: the blocking collective; it completes once every worker has entered it
Collective ==
    /\ \A w \in Workers : pc[w] \in WaitPcs
    /\ SameShape
    /\ \E part \in [Workers -> SUBSET Workers] :
         /\ \A w \in Workers : part[w] \in ReduceParts(w)
         /\ all_losses' = [w \in Workers |-> DistReduce(all_losses, w, part[w])]
    /\ pc' = [w \in Workers |-> Resumed(pc[w])]
    /\ UNCHANGED <<world_size, n_train, n_test, start_iter, err, arguments, ti, tj,
                   loss_dict, losses, loss_names, reduced, train_meters,
                   test_meters, stat, events, ret>>

\* line 29 with tensors of different sizes on the workers: the backend fails
CollectiveMismatch ==
    /\ \A w \in Workers : pc[w] \in WaitPcs
    /\ ~SameShape
    /\ pc' = [w \in Workers |-> "rl_error"]
    /\ err' = [w \in Workers |-> "RuntimeError"]
    /\ UNCHANGED <<world_size, n_train, n_test, start_iter, arguments, ti, tj,
                   loss_dict, losses, loss_names, all_losses, reduced, train_meters,
                   test_meters, stat, events, ret>>

\* ------------------------------------------------------------ initial state
NoStat == [sched |-> 0, forward |-> 0, raised |-> 0, raised_test |-> 0, reduce |-> 0,
           zero_grad |-> 0, backward |-> 0, step |-> 0, log |-> 0]

\* MetricLogger(delimiter="  "), lines 48 and 81
NewMeter(name) == [obj |-> name, n |-> 0]

\* lines 71-72 and 92-93: the arguments of update(loss=..., **reduced)
MeterArgs(red) == [loss |-> SumSeq(Values(red)), fields |-> red.items]

\* MetricLogger.update, lines 72 and 93: the accumulator counts its updates
MeterUpdate(m, args) == [m EXCEPT !.n = @ + 1]

InitCommon ==
    /\ world_size \in 1..MaxWorld
    /\ err = [w \in Workers |-> "none"]
    /\ ti = [w \in Workers |-> 0]
    /\ tj = [w \in Workers |-> 0]
    /\ losses = [w \in Workers |-> Zero]
    /\ loss_names = [w \in Workers |-> <<>>]
    /\ all_losses = [w \in Workers |-> <<>>]
    /\ reduced = [w \in Workers |-> EmptyDict]
    /\ train_meters = [w \in Workers |-> NewMeter("train_meters")]
    /\ test_meters = [w \in Workers |-> NewMeter("none")]
    /\ events = [w \in Workers |-> <<>>]
    /\ ret = [w \in Workers |-> <<>>]

\* --------------------------------------- reduce_loss_dict called on its own
\* the dicts a caller may pass: any keys, in any insertion order
Shapes == {s \in UNION {[1..n -> 1..NKeys] : n \in 0..NKeys} :
             \A i, j \in 1..Len(s) : i # j => s[i] # s[j]}

InputDict(w, s) ==
    [obj |-> "loss_dict",
     items |-> [i \in 1..Len(s) |-> <<s[i], Atom(w, "call", 0, s[i])>>]]

InitReduce ==
    /\ InitCommon
    /\ n_train = 0 /\ n_test = 0 /\ start_iter = 0
    /\ arguments = [w \in Workers |-> 0]
    /\ stat = [w \in Workers |-> NoStat]
    /\ pc = [w \in Workers |-> "rl_call"]
    /\ \E sh \in [Workers -> Shapes] :
         loss_dict = [w \in Workers |-> InputDict(w, sh[w])]

\* lines 19-29: up to the call of dist.reduce (or the return of line 21)
ReduceLossDictCall(w) ==
    /\ pc[w] = "rl_call"
    /\ IF ReduceShortcut(world_size)
       THEN /\ reduced' = [reduced EXCEPT ![w] = loss_dict[w]]
            /\ pc' = [pc EXCEPT ![w] = "rl_returned"]
            /\ UNCHANGED <<err, loss_names, all_losses, stat>>
       ELSE IF LossNames(loss_dict[w]) = <<>>
       THEN \* torch.stack of an empty list raises
            /\ pc' = [pc EXCEPT ![w] = "rl_error"]
            /\ err' = [err EXCEPT ![w] = "RuntimeError"]
            /\ loss_names' = [loss_names EXCEPT ![w] = <<>>]
            /\ UNCHANGED <<reduced, all_losses, stat>>
       ELSE /\ loss_names' = [loss_names EXCEPT ![w] = LossNames(loss_dict[w])]
            /\ all_losses' = [all_losses EXCEPT ![w] = StackLosses(loss_dict[w])]
            /\ stat' = [stat EXCEPT ![w].reduce = @ + 1]
            /\ pc' = [pc EXCEPT ![w] = "rl_wait"]
            /\ UNCHANGED <<err, reduced>>
    /\ UNCHANGED <<world_size, n_train, n_test, start_iter, arguments, ti, tj,
                   loss_dict, losses, train_meters, test_meters, events, ret>>

\* lines 30-35: after dist.reduce returned
ReduceLossDictReturn(w) ==
    /\ pc[w] = "rl_reduced"
    /\ all_losses' = [all_losses EXCEPT ![w] = Divide(@, Rank(w), world_size)]
    /\ reduced' = [reduced EXCEPT ![w] = ZipDict(loss_names[w], all_losses'[w])]
    /\ pc' = [pc EXCEPT ![w] = "rl_returned"]
    /\ UNCHANGED <<world_size, n_train, n_test, start_iter, err, arguments, ti, tj,
                   loss_dict, losses, loss_names, train_meters, test_meters, stat,
                   events, ret>>

NextReduce ==
    \/ \E w \in Workers : ReduceLossDictCall(w)
    \/ Collective
    \/ CollectiveMismatch
    \/ \E w \in Workers : ReduceLossDictReturn(w)

SpecReduce == InitReduce /\ [][NextReduce]_vars

\* ------------------------------------------------------------------ do_train
\* A local of the loop body that is not read again before the loop assigns it
\* (loss_dict, losses and the locals of reduce_loss_dict) is reset when an
\* iteration ends in the continue of line 65 or 89.

\* the starting values of arguments["iteration"] that are tried
StartIters == {0, LogPeriod - 1}

\* line 63 / 87: the model's loss dict for batch b of a phase, when it does not
\* raise: one loss per name, inserted by the model in descending name order
ModelOutput(w, phase, b) ==
    [obj |-> "loss_dict",
     items |-> [i \in 1..NKeys |->
                  <<NKeys + 1 - i, Atom(w, phase, b, NKeys + 1 - i)>>]]

\* mutant of line 55: the increment is left out
IterationOffByOne(start, i) == start + i

\* lines 54-55: enumerate(train_data_loader, start_iter), then iteration + 1
IterationOf(start, i) == start + i + 1

\* mutant of lines 64 and 88: the handler logs the failure
OnRaiseLogged(st) == [st EXCEPT !.log = @ + 1]

\* lines 64-65 and 88-89: except: continue; st is the calls made so far, and
\* nothing is added to them
OnRaise(st) == st

\* lines 64-65 and 88-89: continue stays in the loop it is in
ExceptTarget(loop) == loop

\* mutant of line 75: backward() on the reduced sum of line 71
BackwardOnReduced(ls, red) == SumSeq(Values(red))

\* line 75: losses.backward(), on the local sum of line 67
BackwardArg(ls, red) == ls

\* line 78: if iteration % 10 == 0 or iteration == max_iter
LogsNow(it, max_iter) == IF it % LogPeriod = 0 \/ it = max_iter THEN 1 ELSE 0

Call(name) == <<name, <<>>>>

RECURSIVE RaisedIn(_)
RaisedIn(S) ==
    IF S = {} THEN 0
    ELSE LET v == CHOOSE x \in S : TRUE
         IN stat[v].raised + stat[v].raised_test + RaisedIn(S \ {v})

\* line 63 / 87 may raise on any batch of any worker
MayRaise == RaisedIn(Workers) < MaxRaises

Init ==
    /\ InitCommon
    /\ n_train \in 0..MaxTrain
    /\ n_test \in 0..MaxTest
    /\ start_iter \in StartIters
    /\ arguments = [w \in Workers |-> start_iter]
    /\ stat = [w \in Workers |-> [NoStat EXCEPT !.log = 1]]
    /\ pc = [w \in Workers |-> "train"]
    /\ loss_dict = [w \in Workers |-> EmptyDict]

\* the continue of lines 65 and 89: the locals of the iteration are dead
Dropped(w) ==
    /\ loss_dict' = [loss_dict EXCEPT ![w] = EmptyDict]
    /\ loss_names' = [loss_names EXCEPT ![w] = <<>>]
    /\ all_losses' = [all_losses EXCEPT ![w] = <<>>]
    /\ reduced' = [reduced EXCEPT ![w] = EmptyDict]

\* lines 71-79: the rest of a training iteration, once reduce_loss_dict returned red
TrainTail(w, red, ls, it, st, ev) ==
    /\ reduced' = [reduced EXCEPT ![w] = red]
    /\ train_meters' = [train_meters EXCEPT ![w] = MeterUpdate(@, MeterArgs(red))]
    /\ stat' = [stat EXCEPT ![w] =
                  [st EXCEPT !.zero_grad = @ + 1, !.backward = @ + 1,
                             !.step = @ + 1, !.log = @ + LogsNow(it, n_train)]]
    /\ events' = [events EXCEPT ![w] =
                    ev \o <<<<"meter.update", MeterArgs(red)>>, Call("zero_grad"),
                            <<"backward", BackwardArg(ls, red)>>, Call("optimizer.step")>>
                       \o (IF LogsNow(it, n_train) = 1 THEN <<Call("log")>> ELSE <<>>)]
    /\ ti' = [ti EXCEPT ![w] = @ + 1]
    /\ pc' = [pc EXCEPT ![w] = "train"]

\* lines 54-70 (and 19-29 of reduce_loss_dict): one training batch, up to the
\* continue of line 65, the end of the iteration, or the call of dist.reduce
TrainBatch(w) ==
    /\ pc[w] = "train"
    /\ ti[w] < n_train
    /\ LET it == IterationOf(start_iter, ti[w])
           st0 == [stat[w] EXCEPT !.sched = @ + 1, !.forward = @ + 1]
       IN /\ arguments' = [arguments EXCEPT ![w] = it]
          /\ \/ \* the forward pass raises
                /\ MayRaise
                /\ stat' = [stat EXCEPT ![w] = OnRaise([st0 EXCEPT !.raised = @ + 1])]
                /\ events' = [events EXCEPT ![w] =
                                <<Call("scheduler.step"), Call("forward_raise")>>]
                /\ pc' = [pc EXCEPT ![w] = ExceptTarget("train")]
                /\ ti' = [ti EXCEPT ![w] = @ + 1]
                /\ Dropped(w)
                /\ losses' = [losses EXCEPT ![w] = Zero]
                /\ UNCHANGED train_meters
             \/ \* the forward pass returns a loss dict
                LET d == ModelOutput(w, "train", ti[w] + 1)
                    ls == SumSeq(Values(d))
                    ev == <<Call("scheduler.step"), <<"forward", d>>,
                            Call("reduce_loss_dict")>>
                IN /\ loss_dict' = [loss_dict EXCEPT ![w] = d]
                   /\ losses' = [losses EXCEPT ![w] = ls]
                   /\ IF ReduceShortcut(world_size)
                      THEN /\ TrainTail(w, d, ls, it, st0, ev)
                           /\ UNCHANGED <<loss_names, all_losses>>
                      ELSE /\ loss_names' = [loss_names EXCEPT ![w] = LossNames(d)]
                           /\ all_losses' = [all_losses EXCEPT ![w] = StackLosses(d)]
                           /\ stat' = [stat EXCEPT ![w] = [st0 EXCEPT !.reduce = @ + 1]]
                           /\ events' = [events EXCEPT ![w] = ev]
                           /\ pc' = [pc EXCEPT ![w] = "train_wait"]
                           /\ UNCHANGED <<ti, reduced, train_meters>>
    /\ UNCHANGED <<world_size, n_train, n_test, start_iter, err, tj, test_meters, ret>>

\* lines 30-35 of reduce_loss_dict, then 71-79: after dist.reduce returned
TrainBatchResume(w) ==
    /\ pc[w] = "train_reduced"
    /\ all_losses' = [all_losses EXCEPT ![w] = Divide(@, Rank(w), world_size)]
    /\ TrainTail(w, ZipDict(loss_names[w], all_losses'[w]), losses[w], arguments[w],
                 stat[w], events[w])
    /\ UNCHANGED <<world_size, n_train, n_test, start_iter, err, arguments, tj,
                   loss_dict, losses, loss_names, test_meters, ret>>

\* line 54 with the loader exhausted, then line 81
TrainLoopEnd(w) ==
    /\ pc[w] = "train"
    /\ ti[w] = n_train
    /\ test_meters' = [test_meters EXCEPT ![w] = NewMeter("test_meters")]
    /\ pc' = [pc EXCEPT ![w] = "test"]
    /\ UNCHANGED <<world_size, n_train, n_test, start_iter, err, arguments, ti, tj,
                   loss_dict, losses, loss_names, all_losses, reduced, train_meters,
                   stat, events, ret>>

\* lines 92-93: the rest of a test iteration
TestTail(w, red, ev) ==
    /\ reduced' = [reduced EXCEPT ![w] = red]
    /\ test_meters' = [test_meters EXCEPT ![w] = MeterUpdate(@, MeterArgs(red))]
    /\ events' = [events EXCEPT ![w] = ev \o <<<<"meter.update", MeterArgs(red)>>>>]
    /\ tj' = [tj EXCEPT ![w] = @ + 1]
    /\ pc' = [pc EXCEPT ![w] = "test"]

\* lines 82-91 (and 19-29 of reduce_loss_dict): one test batch
TestBatch(w) ==
    /\ pc[w] = "test"
    /\ tj[w] < n_test
    /\ LET st0 == [stat[w] EXCEPT !.forward = @ + 1]
       IN \/ \* the forward pass raises
             /\ MayRaise
             /\ stat' = [stat EXCEPT ![w] = OnRaise([st0 EXCEPT !.raised_test = @ + 1])]
             /\ events' = [events EXCEPT ![w] = <<Call("forward_raise")>>]
             /\ pc' = [pc EXCEPT ![w] = ExceptTarget("test")]
             /\ tj' = [tj EXCEPT ![w] = @ + 1]
             /\ Dropped(w)
             /\ UNCHANGED test_meters
          \/ \* the forward pass returns a loss dict
             LET d == ModelOutput(w, "test", tj[w] + 1)
                 ev == <<<<"forward", d>>, Call("reduce_loss_dict")>>
             IN /\ loss_dict' = [loss_dict EXCEPT ![w] = d]
                /\ IF ReduceShortcut(world_size)
                   THEN /\ TestTail(w, d, ev)
                        /\ stat' = [stat EXCEPT ![w] = st0]
                        /\ UNCHANGED <<loss_names, all_losses>>
                   ELSE /\ loss_names' = [loss_names EXCEPT ![w] = LossNames(d)]
                        /\ all_losses' = [all_losses EXCEPT ![w] = StackLosses(d)]
                        /\ stat' = [stat EXCEPT ![w] = [st0 EXCEPT !.reduce = @ + 1]]
                        /\ events' = [events EXCEPT ![w] = ev]
                        /\ pc' = [pc EXCEPT ![w] = "test_wait"]
                        /\ UNCHANGED <<tj, reduced, test_meters>>
    /\ UNCHANGED <<world_size, n_train, n_test, start_iter, err, arguments, ti,
                   losses, train_meters, ret>>

\* lines 30-35 of reduce_loss_dict, then 92-93
TestBatchResume(w) ==
    /\ pc[w] = "test_reduced"
    /\ all_losses' = [all_losses EXCEPT ![w] = Divide(@, Rank(w), world_size)]
    /\ TestTail(w, ZipDict(loss_names[w], all_losses'[w]), events[w])
    /\ UNCHANGED <<world_size, n_train, n_test, start_iter, err, arguments, ti,
                   loss_dict, losses, loss_names, train_meters, stat, ret>>

\* lines 94-103: the test loader is exhausted; total_training_time / max_iter
\* raises ZeroDivisionError when the training loader is empty
Finish(w) ==
    /\ pc[w] = "test"
    /\ tj[w] = n_test
    /\ IF n_train = 0
       THEN /\ pc' = [pc EXCEPT ![w] = "error"]
            /\ err' = [err EXCEPT ![w] = "ZeroDivisionError"]
            /\ stat' = [stat EXCEPT ![w].log = @ + 1]
            /\ UNCHANGED ret
       ELSE /\ pc' = [pc EXCEPT ![w] = "returned"]
            /\ stat' = [stat EXCEPT ![w].log = @ + 2]
            /\ ret' = [ret EXCEPT ![w] = <<train_meters[w], test_meters[w]>>]
            /\ UNCHANGED err
    /\ UNCHANGED <<world_size, n_train, n_test, start_iter, arguments, ti, tj,
                   loss_dict, losses, loss_names, all_losses, reduced, train_meters,
                   test_meters, events>>

Next ==
    \/ \E w \in Workers : TrainBatch(w)
    \/ \E w \in Workers : TrainBatchResume(w)
    \/ \E w \in Workers : TrainLoopEnd(w)
    \/ \E w \in Workers : TestBatch(w)
    \/ \E w \in Workers : TestBatchResume(w)
    \/ \E w \in Workers : Finish(w)
    \/ Collective

Spec == Init /\ [][Next]_vars

\* ====================================================== reduce_loss_dict claims
Returned(w) == pc[w] = "rl_returned"
SameKeySets == \A v, w \in Workers : KeySet(loss_dict[v]) = KeySet(loss_dict[w])
Unsorted(d) == Keys(d) # Sorted(Keys(d))

\* the sum over all workers of their input value for key k
InputSum(k) == SetToBag({<<v, "call", 0, k>> : v \in Workers})

\* C1: with world_size >= 2 and the same key set on every worker, rank 0 returns
\* for every key the sum of all workers' values over world_size, and the values
\* returned on the other ranks are not divided by world_size.
C1_Averaged ==
    (world_size >= 2 /\ SameKeySets) =>
        \A w \in Workers : Returned(w) =>
            /\ KeySet(reduced[w]) = KeySet(loss_dict[w])
            /\ \A k \in KeySet(loss_dict[w]) :
                 IF Rank(w) = 0
                 THEN Get(reduced[w], k) = [num |-> InputSum(k), den |-> world_size]
                 ELSE Get(reduced[w], k).den = 1

C1_Witness ==
    /\ world_size >= 2
    /\ SameKeySets
    /\ \A w \in Workers : Returned(w) /\ Len(loss_dict[w].items) >= 2
    /\ \E v, w \in Workers : Keys(loss_dict[v]) # Keys(loss_dict[w])

\* C2: with world_size < 2 the input dict itself is returned, and no collective
\* reduce is issued.
C2_Unchanged ==
    world_size < 2 =>
        \A w \in Workers :
            /\ stat[w].reduce = 0
            /\ pc[w] \in {"rl_call", "rl_returned"}
            /\ Returned(w) => reduced[w] = loss_dict[w]

C2_Witness ==
    /\ world_size < 2
    /\ \E w \in Workers : Returned(w) /\ Unsorted(loss_dict[w])

\* C3 as stated: for every world size the returned key order is the sorted order
\* of the input's keys.
C3_SortedAlways ==
    \A w \in Workers : Returned(w) => Keys(reduced[w]) = Sorted(Keys(loss_dict[w]))

\* C3 amended: with world_size >= 2 the returned key order is the sorted order of
\* the input's keys (with world_size < 2 it is the input's own order).
C3_SortedWhenReduced ==
    \A w \in Workers : Returned(w) =>
        Keys(reduced[w]) = IF world_size >= 2 THEN Sorted(Keys(loss_dict[w]))
                           ELSE Keys(loss_dict[w])

C3_Witness ==
    /\ world_size >= 2
    /\ \E w \in Workers : Returned(w) /\ Unsorted(loss_dict[w])

\* C4: the returned dict has exactly the keys of the worker's input, and the value
\* under key k is computed from the worker's input value for k (and from no other
\* value of its input).
C4_SameKeys ==
    \A w \in Workers : Returned(w) =>
        /\ KeySet(reduced[w]) = KeySet(loss_dict[w])
        /\ Len(reduced[w].items) = Len(loss_dict[w].items)
        /\ \A i \in 1..Len(reduced[w].items) :
             LET k == reduced[w].items[i][1]
                 v == reduced[w].items[i][2]
             IN /\ BagIn(<<w, "call", 0, k>>, v.num)
                /\ \A a \in BagToSet(v.num) : a[1] = w => a[4] = k

C4_Witness ==
    /\ world_size >= 2
    /\ \A w \in Workers : Returned(w)
    /\ \E v, w \in Workers :
         Rank(v) = 0 /\ Unsorted(loss_dict[v]) /\ Len(loss_dict[w].items) >= 2
                     /\ ~Unsorted(loss_dict[w])

\* ================================================================ do_train claims
Waiting(w) == pc[w] \in {"train_wait", "test_wait"}
InReduce(w) == pc[w] \in {"train_wait", "train_reduced", "test_wait", "test_reduced"}
InTrainReduce(w) == pc[w] \in {"train_wait", "train_reduced"}
Ended(w) == pc[w] \in {"returned", "error"}

\* loop iterations worker w has begun, and training iterations it has begun
Begun(w) == ti[w] + tj[w] + (IF InReduce(w) THEN 1 ELSE 0)
TrainBegun(w) == ti[w] + (IF InTrainReduce(w) THEN 1 ELSE 0)

Callees(ev) == [i \in 1..Len(ev) |-> ev[i][1]]
IsPrefix(a, b) == Len(a) <= Len(b) /\ SubSeq(b, 1, Len(a)) = a

\* C5: a forward pass that raises, in either loop, does not end do_train: the loop
\* goes on to the next batch, and the step updates no meter, calls neither
\* zero_grad, backward, optimizer.step nor a collective reduce, and logs nothing.
C5_RaiseDropped ==
    [][\A w \in Workers :
         (stat'[w].raised + stat'[w].raised_test # stat[w].raised + stat[w].raised_test) =>
             /\ pc[w] \in {"train", "test"}
             /\ pc'[w] = pc[w]
             /\ err'[w] = "none"
             /\ ti'[w] + tj'[w] = ti[w] + tj[w] + 1
             /\ train_meters'[w] = train_meters[w]
             /\ test_meters'[w] = test_meters[w]
             /\ stat'[w].zero_grad = stat[w].zero_grad
             /\ stat'[w].backward = stat[w].backward
             /\ stat'[w].step = stat[w].step
             /\ stat'[w].reduce = stat[w].reduce
             /\ stat'[w].log = stat[w].log]_vars

C5_Witness ==
    \E w \in Workers :
        /\ stat[w].raised >= 1
        /\ stat[w].raised_test >= 1
        /\ pc[w] = "returned"

\* C6 as stated: every loop iteration a worker begins issues exactly one
\* collective reduce call.
C6_OnePerIteration == \A w \in Workers : stat[w].reduce = Begun(w)

\* C6 amended: a worker issues at most one collective reduce call per loop
\* iteration: exactly one for every batch whose forward pass did not raise when
\* world_size >= 2, and none when world_size < 2.
C6_OnePerReducedBatch ==
    \A w \in Workers :
        stat[w].reduce = IF world_size < 2 THEN 0
                         ELSE Begun(w) - stat[w].raised - stat[w].raised_test

C6_Witness ==
    /\ world_size >= 2
    /\ \E w \in Workers :
         /\ pc[w] = "returned"
         /\ stat[w].reduce >= 2
         /\ stat[w].raised >= 1

\* C7: do_train never ends in an error, and what it returns is the pair
\* (train_meters, test_meters).
C7_ReturnsMeters ==
    \A w \in Workers :
        /\ pc[w] # "error"
        /\ pc[w] = "returned" =>
             /\ ret[w] = <<train_meters[w], test_meters[w]>>
             /\ ret[w][1].obj = "train_meters"
             /\ ret[w][2].obj = "test_meters"

\* the calls of a training iteration whose forward pass does not raise
TrainOrder == <<"scheduler.step", "forward", "reduce_loss_dict", "meter.update",
                "zero_grad", "backward", "optimizer.step">>

\* the local losses of worker w on training batch b, summed
LocalTrainSum(w, b) ==
    [num |-> SetToBag({<<w, "train", b, k>> : k \in 1..NKeys}), den |-> 1]

TrainIteration(w) ==
    /\ events[w] # <<>>
    /\ events[w][1][1] = "scheduler.step"
    /\ events[w][2][1] = "forward"

\* C8: a training batch whose forward pass does not raise makes these calls, once
\* each and in this order: scheduler.step, forward, reduce_loss_dict, meter
\* update, zero_grad, backward, optimizer.step; backward is called on the sum of
\* the worker's own losses of that batch, and the meter update gets the reduced
\* losses.
C8_StepOrder ==
    \A w \in Workers :
        /\ TrainIteration(w) =>
             /\ IsPrefix(Callees(events[w]), TrainOrder \o <<"log">>)
             /\ IF InTrainReduce(w)
                THEN Callees(events[w]) = SubSeq(TrainOrder, 1, 3)
                ELSE /\ IsPrefix(TrainOrder, Callees(events[w]))
                     /\ events[w][2][2] = ModelOutput(w, "train", ti[w])
                     /\ events[w][6][2] = LocalTrainSum(w, ti[w])
                     /\ events[w][4][2] = MeterArgs(reduced[w])
                     /\ (world_size >= 2 /\ Rank(w) = 0) =>
                          \A i \in 1..Len(reduced[w].items) :
                              reduced[w].items[i][2].den = world_size
        /\ stat[w].zero_grad = stat[w].step
        /\ stat[w].backward = stat[w].step
        /\ train_meters[w].n = stat[w].step
        /\ stat[w].step = ti[w] - stat[w].raised

C8_Witness ==
    /\ world_size >= 2
    /\ \E w \in Workers :
         /\ Rank(w) = 0
         /\ pc[w] = "train"
         /\ TrainIteration(w)
         /\ stat[w].step >= 2

\* the batches whose losses are summed in tensor t
Batches(t) == UNION {{<<a[2], a[3]>> : a \in BagToSet(t[i].num)} : i \in 1..Len(t)}

\* C9: with world_size >= 2 and loaders of the same length on every worker, the
\* workers that meet in a collective reduce are at the same batch, a reduced
\* value sums losses of one batch only, and no worker stays blocked in a reduce
\* that another worker, having ended, will never enter.
C9_ReducesMatch ==
    world_size >= 2 =>
        /\ (\A w \in Workers : Waiting(w)) =>
               \A v, w \in Workers : pc[v] = pc[w] /\ ti[v] = ti[w] /\ tj[v] = tj[w]
        /\ \A w \in Workers :
               pc[w] \in {"train_reduced", "test_reduced"} =>
                   Cardinality(Batches(all_losses[w])) = 1
        /\ ~ \E v, w \in Workers : Waiting(v) /\ Ended(w)

\* C10: arguments["iteration"] is its starting value plus the training batches
\* taken so far, changes by +1 and only when a training batch is taken, and is the
\* starting value plus the length of the training loader when do_train returns;
\* scheduler.step is called as many times as arguments["iteration"] grew, and
\* optimizer.step once per training batch whose forward pass did not raise.
C10_Inv ==
    \A w \in Workers :
        /\ arguments[w] = start_iter + TrainBegun(w)
        /\ stat[w].sched = arguments[w] - start_iter
        /\ ~InTrainReduce(w) => stat[w].step = ti[w] - stat[w].raised
        /\ pc[w] \in {"test", "test_wait", "test_reduced", "returned"} =>
             arguments[w] = start_iter + n_train

C10_Step ==
    \A w \in Workers :
        /\ arguments'[w] = arguments[w] \/ arguments'[w] = arguments[w] + 1
        /\ arguments'[w] = arguments[w] + 1 <=> stat'[w].sched = stat[w].sched + 1
        /\ arguments'[w] = arguments[w] + 1 <=> (pc[w] = "train" /\ ti[w] < n_train
                                                  /\ stat'[w].forward # stat[w].forward)
        /\ pc[w] \notin {"train"} => arguments'[w] = arguments[w]

C10_Iteration == []C10_Inv /\ [][C10_Step]_vars

C10_Witness ==
    \E w \in Workers :
        /\ pc[w] = "returned"
        /\ start_iter > 0
        /\ n_train >= 2
        /\ stat[w].raised >= 1
        /\ stat[w].step >= 1
====
